---- MODULE Spec2Model ----
(***************************************************************************)
(* Food record store of the expo example app: the form screen             *)
(* (src/app/(food)/food-form.tsx) and the list screen                     *)
(* (src/unnamed/part_001) reading and rewriting one JSON document.        *)
(*                                                                         *)
(* Every await of a file-system call is one step of the model, so the     *)
(* handlers of two screens interleave exactly where the code suspends.    *)
(* Text values are sequences of one-character strings.                    *)
(***************************************************************************)
EXTENDS Integers, Sequences, FiniteSets, TLC

\* ------------------------------------------------------------------ bounds
\* Date.now() returns a wall-clock reading in 1..MaxTime.
MaxTime == 2
\* The handlers that rewrite the document (submits that pass validation,
\* confirmed deletes, deleteFood calls) started in one run.
MaxOps == 2
\* An image is picked for a submit only while fewer image files than this are
\* stored or being copied.
MaxImages == 1

Times == 1..MaxTime
Forms == {"f1", "f2"}
Actors == Forms \cup {"list"}

\* ------------------------------------------------------------------ text
Digits == <<"0", "1", "2", "3", "4", "5", "6", "7", "8", "9">>
DigitSet == {Digits[i] : i \in 1..10}
WhiteSpace == {" "}

\* Number.prototype.toString of a non-negative integer: its decimal digits.
RECURSIVE toString(_)
toString(n) ==
  IF n < 10 THEN <<Digits[n + 1]>>
  ELSE toString(n \div 10) \o <<Digits[(n % 10) + 1]>>

RECURSIVE TrimStart(_)
TrimStart(s) ==
  IF s # <<>> /\ Head(s) \in WhiteSpace THEN TrimStart(Tail(s)) ELSE s

RECURSIVE TrimEnd(_)
TrimEnd(s) ==
  IF s # <<>> /\ s[Len(s)] \in WhiteSpace
  THEN TrimEnd(SubSeq(s, 1, Len(s) - 1)) ELSE s

\* String.prototype.trim
Trim(s) == TrimEnd(TrimStart(s))

\* isNaN(Number(s)): Number() strips white space, reads the empty text as 0
\* and a run of decimal digits as that number; any other text is NaN.
NumberIsNaN(s) ==
  LET t == Trim(s) IN t # <<>> /\ \E i \in 1..Len(t) : t[i] \notin DigitSet

\* x || '0'
OrZero(s) == IF s = <<>> THEN <<"0">> ELSE s

\* ------------------------------------------------------------------ inputs
\* What the user may have typed or picked when a button is pressed.
NameInputs == {<<>>, <<" ">>, <<" ", "a", " ">>}
WeightInputs == {<<>>, <<"7">>, <<"7", "a">>}
CaloriesInputs == {<<>>}
ImageInputs == {<<>>, <<"p">>}
FOOD_CATEGORIES == {"staple"}

\* protein, carbs, fat and fiber are left empty: they take the same x || '0'
\* path as calories.
OtherInputs == {<<>>}

\* The forms the user may submit: every weight with the name that trims to a
\* name, every name with the weight that is a number.
Inputs ==
  {in \in [foodName : NameInputs, weight : WeightInputs,
           calories : CaloriesInputs, protein : OtherInputs,
           carbs : OtherInputs, fat : OtherInputs, fiber : OtherInputs,
           imageUri : ImageInputs, category : FOOD_CATEGORIES] :
     in.foodName = <<" ", "a", " ">> \/ in.weight = <<"7">>}

\* ------------------------------------------------------------------ state
VARIABLES
  dirExists,    \* DATA_DIRECTORY exists
  file,         \* FOODS_FILE_PATH: [exists, indent, foods]
  images,       \* names of the image files copied into DATA_DIRECTORY
  initialData,  \* per form: [present, id] parsed from the route parameter
  isLoading,    \* per form: the busy flag
  pc,           \* per actor: the await its handler is suspended at
  op,           \* per actor: the handler that is running
  newFood,      \* per form: handleSubmit's newFood
  fileName,     \* per form: handleSubmit's fileName
  foods,        \* per actor: the handler's local collection
  arg,          \* deleteFood's id argument
  listFoods,    \* CategoryScreen's foods state: the ids of its records
  top,          \* the screen on top of the navigation stack
  started,      \* history: the handlers that rewrite the document started so far
  inflight,     \* history: per form, handlers between setIsLoading(true) and finally
  pre,          \* history: per actor, the disk when its handler started, if no
                \* other mutating handler ran since
  loaded,       \* history: per actor, what its loadFoods returned
  rival,        \* history: per actor, the save of another actor that landed
                \* after this actor's load
  last          \* history: what the step just taken completed

diskVars == <<dirExists, file, images>>
vars == <<dirExists, file, images, initialData, isLoading, pc, op,
          newFood, fileName, foods, arg, listFoods, top, started, inflight,
          pre, loaded, rival, last>>

DATA_DIRECTORY == <<"f", "/">>
NoFile == [exists |-> FALSE, indent |-> 0, foods |-> <<>>]

\* JSON.stringify(foods, null, indent): the text keeps its indentation.
Stringify(fs, indent) == [exists |-> TRUE, indent |-> indent, foods |-> fs]
\* JSON.parse(content)
Parse(text) == text.foods

Disk == [valid |-> TRUE, dir |-> dirExists, file |-> file, images |-> images]
NoSnap == [valid |-> FALSE, dir |-> FALSE, file |-> NoFile, images |-> {}]

NoData == [present |-> FALSE, id |-> <<>>]
NoFood ==
  [id |-> <<>>, foodName |-> <<>>, category |-> "", calories |-> <<>>,
   weight |-> <<>>, protein |-> <<>>, carbs |-> <<>>, fat |-> <<>>,
   fiber |-> <<>>, imageUri |-> <<>>]

Ids(fs) == {fs[i].id : i \in 1..Len(fs)}

NoRival == [valid |-> FALSE, kind |-> "", id |-> <<>>]
NoInput == [foodName |-> <<>>, weight |-> <<>>]

\* The record the history variable last holds: what the step just taken
\* completed (kind "none": nothing).
NoEvent ==
  [kind |-> "none", actor |-> "", result |-> "", pre |-> NoSnap,
   alert |-> "none", back |-> FALSE, id |-> <<>>, food |-> NoFood,
   input |-> NoInput, found |-> "",
   doc |-> NoFile, ret |-> <<>>, loaded |-> <<>>, written |-> <<>>,
   rival |-> NoRival]

Running == {"copy", "load", "initFile", "write"}
\* A handler that rewrites the document is running in actor a.
Mutating(a) == pc[a] \in Running /\ op[a] # "load"

\* A record as an earlier run of the app saved it, created at time t.
Saved(t) ==
  [id |-> toString(t), foodName |-> <<"a">>, category |-> "staple",
   calories |-> <<"0">>, weight |-> <<"5">>, protein |-> <<"0">>,
   carbs |-> <<"0">>, fat |-> <<"0">>, fiber |-> <<"0">>, imageUri |-> <<>>]

\* The documents the app may find when it starts: the records of earlier
\* runs, created at different times.
StartFoods == {<<Saved(1), Saved(t)>> : t \in 2..MaxTime}

\* ------------------------------------------------------------------ Init
\* The app starts on the list screen, after a fresh install (no directory, no
\* document) or over the document an earlier run saved.
Init ==
  /\ \/ dirExists = FALSE /\ file = NoFile
     \/ dirExists = TRUE /\ \E fs \in StartFoods : file = Stringify(fs, 2)
  /\ images = {}
  /\ initialData = [f \in Forms |-> NoData]
  /\ isLoading = [f \in Forms |-> FALSE]
  /\ pc = [a \in Actors |-> IF a = "list" THEN "idle" ELSE "closed"]
  /\ op = [a \in Actors |-> "none"]
  /\ newFood = [f \in Forms |-> NoFood]
  /\ fileName = [f \in Forms |-> <<>>]
  /\ foods = [a \in Actors |-> <<>>]
  /\ arg = <<>>
  /\ listFoods = <<>>
  /\ top = "list"
  /\ started = 0
  /\ inflight = [f \in Forms |-> 0]
  /\ pre = [a \in Actors |-> NoSnap]
  /\ loaded = [a \in Actors |-> <<>>]
  /\ rival = [a \in Actors |-> NoRival]
  /\ last = NoEvent

\* ------------------------------------------------------------------ history
\* pre when actor a starts a handler that rewrites the document.
PreAtStart(a) ==
  [b \in Actors |->
     IF b = a
     THEN IF \E c \in Actors \ {a} : Mutating(c) THEN NoSnap ELSE Disk
     ELSE IF Mutating(b) THEN NoSnap ELSE pre[b]]

\* rival when actor a's save of its collection lands.
RivalAtSave(a, id) ==
  [b \in Actors |->
     IF b = a THEN NoRival
     ELSE IF pc[b] = "write" THEN [valid |-> TRUE, kind |-> op[a], id |-> id]
     ELSE rival[b]]

\* ------------------------------------------------------------------ navigation
\* A confirmation dialog is on screen: it takes every touch.
NoDialog == \A g \in Forms : pc[g] # "confirm"

\* The list's Link pushes the form screen, with a record of the list as
\* initialData or with none. A free instance is taken, the first one first.
OpenForm(f) ==
  /\ top = "list"
  /\ NoDialog
  /\ pc[f] = "closed"
  /\ f = "f2" => pc["f1"] # "closed"
  /\ \E d \in {NoData} \cup
              {[present |-> TRUE, id |-> listFoods[i]] : i \in 1..Len(listFoods)} :
       initialData' = [initialData EXCEPT ![f] = d]
  /\ isLoading' = [isLoading EXCEPT ![f] = FALSE]
  /\ pc' = [pc EXCEPT ![f] = "idle"]
  /\ top' = f
  /\ last' = NoEvent
  /\ UNCHANGED <<dirExists, file, images, op, newFood, fileName, foods, arg, listFoods,
                 inflight, pre, loaded, rival, started>>

\* The header's back arrow pops the form. A handler that is suspended at an
\* await goes on without its screen.
Back(f) ==
  /\ top = f
  /\ NoDialog
  /\ top' = "list"
  /\ IF pc[f] = "idle"
     THEN /\ pc' = [pc EXCEPT ![f] = "closed"]
          /\ initialData' = [initialData EXCEPT ![f] = NoData]
     ELSE UNCHANGED <<pc, initialData>>
  /\ last' = NoEvent
  /\ UNCHANGED <<dirExists, file, images, isLoading, op, newFood, fileName, foods, arg,
                 listFoods, inflight, pre, loaded, rival, started>>

\* The buttons without disabled={isLoading}.
CanPressWhileBusy(f) == top = f /\ NoDialog /\ pc[f] # "closed"

\* disabled={isLoading} on the save and delete buttons of the form on screen.
CanPress(f) == top = f /\ NoDialog /\ pc[f] # "closed" /\ ~isLoading[f]

\* ------------------------------------------------------------------ form
\* validateForm without its weight check.
validateFormNameOnly(in) == Trim(in.foodName) # <<>>

\* validateForm
validateForm(in) ==
  /\ Trim(in.foodName) # <<>>
  /\ ~(in.weight = <<>> \/ NumberIsNaN(in.weight))

\* handleSubmit's newFood, with Date.now() = t
BuildFood(f, in, t) ==
  [id |-> IF initialData[f].id # <<>> THEN initialData[f].id ELSE toString(t),
   foodName |-> Trim(in.foodName),
   category |-> in.category,
   calories |-> OrZero(in.calories),
   weight |-> OrZero(in.weight),
   protein |-> OrZero(in.protein),
   carbs |-> OrZero(in.carbs),
   fat |-> OrZero(in.fat),
   fiber |-> OrZero(in.fiber),
   imageUri |-> in.imageUri]

\* foods.findIndex(food => food.id === id), 0 for -1
FindIndex(fs, id) ==
  IF \E i \in 1..Len(fs) : fs[i].id = id
  THEN CHOOSE i \in 1..Len(fs) :
         fs[i].id = id /\ \A j \in 1..(i - 1) : fs[j].id # id
  ELSE 0

\* foods.filter(food => food.id !== id)
FilterOut(fs, id) == SelectSeq(fs, LAMBDA r : r.id # id)

\* What handleSubmit and handleDelete make of the loaded collection.
Updated(f, fs) ==
  CASE op[f] = "create" -> Append(fs, newFood[f])
    [] op[f] = "edit" ->
         LET index == FindIndex(fs, initialData[f].id) IN
         IF index # 0 THEN [fs EXCEPT ![index] = newFood[f]] ELSE fs
    [] OTHER -> FilterOut(fs, initialData[f].id)

\* `${newFood.id}_${Date.now()}.jpg`, with Date.now() = t
FileName(id, t) == id \o <<"_">> \o toString(t) \o <<".jpg">>

\* handleSubmit up to its first await. Its Date.now() calls run back to back
\* and read the same t.
handleSubmit(f) ==
  /\ CanPress(f)
  /\ \E in \in Inputs, t \in Times :
       /\ validateForm(in) => started < MaxOps
       /\ in.imageUri # <<>> =>
            Cardinality(images) + Cardinality({g \in Forms : pc[g] = "copy"})
              < MaxImages
       /\ IF ~validateForm(in)
          THEN /\ last' = [NoEvent EXCEPT !.kind = "submit", !.actor = f,
                             !.result = "rejected", !.alert = "invalid",
                             !.pre = Disk,
                             !.input = [foodName |-> in.foodName,
                                        weight |-> in.weight]]
               /\ UNCHANGED <<dirExists, file, images, initialData, isLoading,
                              pc, op, newFood, fileName, foods, arg, listFoods, top,
                              inflight, pre, loaded, rival, started>>
          ELSE /\ started' = started + 1
               /\ isLoading' = [isLoading EXCEPT ![f] = TRUE]
               /\ inflight' = [inflight EXCEPT ![f] = @ + 1]
               /\ newFood' = [newFood EXCEPT ![f] = BuildFood(f, in, t)]
               /\ fileName' = [fileName EXCEPT ![f] =
                                 IF in.imageUri # <<>>
                                 THEN FileName(BuildFood(f, in, t).id, t)
                                 ELSE <<>>]
               /\ op' = [op EXCEPT ![f] =
                           IF initialData[f].id # <<>> THEN "edit" ELSE "create"]
               /\ pc' = [pc EXCEPT ![f] =
                           IF in.imageUri # <<>> THEN "copy" ELSE "load"]
               /\ pre' = PreAtStart(f)
               /\ rival' = [rival EXCEPT ![f] = NoRival]
               /\ loaded' = loaded
               /\ last' = [NoEvent EXCEPT !.kind = "submit", !.actor = f,
                             !.result = "started", !.pre = Disk,
                             !.input = [foodName |-> in.foodName,
                                        weight |-> in.weight]]
               /\ UNCHANGED <<dirExists, file, images, initialData, foods, arg,
                              listFoods, top>>

\* The handler of form f ends: finally { setIsLoading(false) }, and with
\* popped the router.back() of the success path, which pops the screen on top.
Finish(f, popped) ==
  /\ started' = started
  /\ inflight' = [inflight EXCEPT ![f] = @ - 1]
  /\ isLoading' = [isLoading EXCEPT ![f] = FALSE]
  /\ op' = [op EXCEPT ![f] = "none"]
  /\ newFood' = [newFood EXCEPT ![f] = NoFood]
  /\ fileName' = [fileName EXCEPT ![f] = <<>>]
  /\ foods' = [foods EXCEPT ![f] = <<>>]
  /\ pre' = [pre EXCEPT ![f] = NoSnap]
  /\ loaded' = [loaded EXCEPT ![f] = <<>>]
  /\ top' = IF popped THEN "list" ELSE top
  /\ LET gone(g) ==
           \/ g = f /\ (top # f \/ popped)
           \/ g # f /\ popped /\ top = g /\ pc[g] = "idle"
     IN /\ pc' = [g \in Actors |->
                    IF g \in Forms /\ gone(g) THEN "closed"
                    ELSE IF g = f THEN "idle" ELSE pc[g]]
        /\ initialData' = [g \in Forms |->
                             IF gone(g) THEN NoData ELSE initialData[g]]

\* The catch of handleSubmit and of the delete confirmation.
Failed(f, result) ==
  /\ Finish(f, FALSE)
  /\ rival' = [rival EXCEPT ![f] = NoRival]
  /\ last' = [NoEvent EXCEPT !.kind = op[f], !.actor = f, !.result = result,
                !.alert = "failure", !.pre = pre[f], !.id = initialData[f].id,
                !.food = newFood[f], !.rival = rival[f]]

\* FileSystem.copyAsync of the picked image to newImagePath, which handleSubmit
\* left in fileName.
CopyOk(f) ==
  /\ pc[f] = "copy"
  /\ images' = images \cup {fileName[f]}
  /\ newFood' = [newFood EXCEPT ![f].imageUri = DATA_DIRECTORY \o fileName[f]]
  /\ fileName' = [fileName EXCEPT ![f] = <<>>]
  /\ dirExists' = TRUE
  /\ pc' = [pc EXCEPT ![f] = "load"]
  /\ last' = NoEvent
  /\ UNCHANGED <<file, initialData, isLoading, op, foods, arg, listFoods, top,
                 inflight, pre, loaded, rival, started>>

CopyFail(f) ==
  /\ pc[f] = "copy"
  /\ Failed(f, "copyFailed")
  /\ UNCHANGED <<dirExists, file, images, arg, listFoods>>

\* The form's loadFoods returns loaded; the handler updates the collection
\* and enters saveFoods.
FormLoaded(f, ret, found, result) ==
  /\ foods' = [foods EXCEPT ![f] = Updated(f, ret)]
  /\ loaded' = [loaded EXCEPT ![f] = ret]
  /\ pc' = [pc EXCEPT ![f] = "write"]
  /\ last' = [NoEvent EXCEPT !.kind = "load", !.actor = f, !.result = result,
                !.found = found, !.doc = file, !.ret = ret]
  /\ UNCHANGED <<images, initialData, isLoading, op, newFood, fileName, arg,
                 listFoods, top, inflight, pre, rival, started>>

\* loadFoods, from ensureDirectoryExists to the return, when getInfoAsync
\* finds the document. The document never goes away once it exists, so what
\* these awaits see is what the last of them, the read, sees: they are one step.
FormLoadOk(f) ==
  /\ pc[f] = "load"
  /\ file.exists
  /\ dirExists' = TRUE
  /\ file' = file
  /\ FormLoaded(f, Parse(file), "present", "ok")

\* loadFoods: the read or the parse throws, the catch returns [].
FormLoadFail(f) ==
  /\ pc[f] = "load"
  /\ file.exists
  /\ dirExists' = TRUE
  /\ file' = file
  /\ FormLoaded(f, <<>>, "present", "readFailed")

\* loadFoods: ensureDirectoryExists, and getInfoAsync finds no document.
FormLoadMissing(f) ==
  /\ pc[f] = "load"
  /\ ~file.exists
  /\ dirExists' = TRUE
  /\ pc' = [pc EXCEPT ![f] = "initFile"]
  /\ last' = NoEvent
  /\ UNCHANGED <<file, images, initialData, isLoading, op, newFood, fileName,
                 foods, arg, listFoods, top, inflight, pre, loaded, rival, started>>

\* loadFoods: the document was missing, write JSON.stringify([]) and return [].
InitFileOk(f) ==
  /\ pc[f] = "initFile"
  /\ file' = Stringify(<<>>, 0)
  /\ dirExists' = dirExists
  /\ FormLoaded(f, <<>>, "missing", "ok")

\* loadFoods: that write throws, the catch returns [].
InitFileFail(f) ==
  /\ pc[f] = "initFile"
  /\ file' = file
  /\ dirExists' = dirExists
  /\ FormLoaded(f, <<>>, "missing", "writeFailed")

\* The id a handler of form f works on.
TargetId(f) == IF op[f] = "create" THEN newFood[f].id ELSE initialData[f].id

\* A save that applies the handler's change to the document as it is now.
SavedFoodsMerged(f) == Updated(f, Parse(file))

\* The collection handleSubmit and handleDelete pass to saveFoods.
SavedFoods(f) == foods[f]

\* saveFoods (ensureDirectoryExists, then the write), the success alert and
\* router.back() (after a delete, from the alert's OK button).
saveFoodsOk(f) ==
  /\ pc[f] = "write"
  /\ dirExists' = TRUE
  /\ file' = Stringify(SavedFoods(f), 2)
  /\ Finish(f, TRUE)
  /\ rival' = RivalAtSave(f, TargetId(f))
  /\ last' = [NoEvent EXCEPT !.kind = op[f], !.actor = f, !.result = "ok",
                !.alert = "success", !.back = TRUE, !.pre = pre[f],
                !.id = TargetId(f), !.food = newFood[f],
                !.loaded = loaded[f], !.written = foods[f], !.rival = rival[f]]
  /\ UNCHANGED <<images, arg, listFoods>>

\* saveFoods rethrows the write's error.
saveFoodsFail(f) ==
  /\ pc[f] = "write"
  /\ dirExists' = TRUE
  /\ Failed(f, "writeFailed")
  /\ UNCHANGED <<file, images, arg, listFoods>>

\* handleDelete: the confirmation dialog opens.
handleDelete(f) ==
  /\ CanPress(f)
  /\ started < MaxOps
  /\ initialData[f].present
  /\ initialData[f].id # <<>>
  /\ pc' = [pc EXCEPT ![f] = "confirm"]
  /\ last' = NoEvent
  /\ UNCHANGED <<dirExists, file, images, initialData, isLoading, op, newFood, fileName,
                 foods, arg, listFoods, top, inflight, pre, loaded, rival, started>>

\* The dialog's cancel button.
DeleteCancel(f) ==
  /\ pc[f] = "confirm"
  /\ pc' = [pc EXCEPT ![f] = IF top = f THEN "idle" ELSE "closed"]
  /\ initialData' = [initialData EXCEPT ![f] = IF top = f THEN @ ELSE NoData]
  /\ last' = NoEvent
  /\ UNCHANGED <<dirExists, file, images, isLoading, op, newFood, fileName, foods, arg,
                 listFoods, top, inflight, pre, loaded, rival, started>>

\* The dialog's delete button, up to the first await of loadFoods.
DeleteConfirm(f) ==
  /\ pc[f] = "confirm"
  /\ started' = started + 1
  /\ isLoading' = [isLoading EXCEPT ![f] = TRUE]
  /\ inflight' = [inflight EXCEPT ![f] = @ + 1]
  /\ op' = [op EXCEPT ![f] = "delete"]
  /\ pc' = [pc EXCEPT ![f] = "load"]
  /\ pre' = PreAtStart(f)
  /\ rival' = [rival EXCEPT ![f] = NoRival]
  /\ loaded' = loaded
  /\ last' = NoEvent
  /\ UNCHANGED <<dirExists, file, images, initialData, newFood, fileName, foods, arg,
                 listFoods, top>>

\* ------------------------------------------------------------------ list
\* The ids of a collection, in order.
IdsOf(fs) == [i \in 1..Len(fs) |-> fs[i].id]

\* What the list's loadFoods returned: the history of the step.
ListLoadEvent(ret, found, result) ==
  [NoEvent EXCEPT !.kind = "load", !.actor = "list", !.result = result,
     !.found = found, !.doc = file, !.ret = ret]

\* useFocusEffect: fetchFoods, that is the list's loadFoods and setFoods. The
\* document never goes away once it exists, so getInfoAsync and the read see
\* what the read sees: they are one step.
fetchFoods ==
  /\ top = "list"
  /\ pc["list"] = "idle"
  /\ \/ /\ ~file.exists
        /\ listFoods' = <<>>
        /\ last' = ListLoadEvent(<<>>, "missing", "ok")
     \/ /\ file.exists
        /\ listFoods' = IdsOf(Parse(file))
        /\ last' = ListLoadEvent(Parse(file), "present", "ok")
     \/ /\ file.exists
        /\ listFoods' = <<>>
        /\ last' = ListLoadEvent(<<>>, "present", "readFailed")
  /\ UNCHANGED <<dirExists, file, images, initialData, isLoading, pc, op,
                 newFood, fileName, foods, arg, top, inflight, pre, loaded, rival,
                 started>>

\* deleteFood(id), up to the first await of the list's loadFoods.
deleteFood ==
  /\ top = "list"
  /\ NoDialog
  /\ pc["list"] = "idle"
  /\ started < MaxOps
  /\ started' = started + 1
  /\ \E i \in 1..Len(listFoods) : arg' = listFoods[i]
  /\ op' = [op EXCEPT !["list"] = "listDelete"]
  /\ pc' = [pc EXCEPT !["list"] = "load"]
  /\ pre' = PreAtStart("list")
  /\ rival' = [rival EXCEPT !["list"] = NoRival]
  /\ loaded' = loaded
  /\ last' = NoEvent
  /\ UNCHANGED <<dirExists, file, images, initialData, isLoading, newFood,
                 fileName, foods, listFoods, top, inflight>>

\* deleteFood: the list's loadFoods returns ret and the filter is applied.
ListLoaded(ret, found, result) ==
  /\ foods' = [foods EXCEPT !["list"] = FilterOut(ret, arg)]
  /\ loaded' = [loaded EXCEPT !["list"] = ret]
  /\ last' = ListLoadEvent(ret, found, result)

ListLoad ==
  /\ pc["list"] = "load"
  /\ \/ ~file.exists /\ ListLoaded(<<>>, "missing", "ok")
     \/ file.exists /\ ListLoaded(Parse(file), "present", "ok")
     \/ file.exists /\ ListLoaded(<<>>, "present", "readFailed")
  /\ pc' = [pc EXCEPT !["list"] = "write"]
  /\ UNCHANGED <<dirExists, file, images, initialData, isLoading, op, newFood,
                 fileName, arg, listFoods, top, inflight, pre, rival, started>>

\* The end of deleteFood.
ListFinish ==
  /\ pc' = [pc EXCEPT !["list"] = "idle"]
  /\ op' = [op EXCEPT !["list"] = "none"]
  /\ foods' = [foods EXCEPT !["list"] = <<>>]
  /\ arg' = <<>>
  /\ pre' = [pre EXCEPT !["list"] = NoSnap]
  /\ loaded' = [loaded EXCEPT !["list"] = <<>>]

\* deleteFood: writeAsStringAsync(JSON.stringify(updatedFoods)), setFoods.
ListWriteOk ==
  /\ pc["list"] = "write"
  /\ dirExists
  /\ file' = Stringify(foods["list"], 0)
  /\ listFoods' = IdsOf(foods["list"])
  /\ ListFinish
  /\ rival' = RivalAtSave("list", arg)
  /\ last' = [NoEvent EXCEPT !.kind = "listDelete", !.actor = "list",
                !.result = "ok", !.pre = pre["list"], !.id = arg,
                !.loaded = loaded["list"], !.written = foods["list"],
                !.rival = rival["list"]]
  /\ UNCHANGED <<dirExists, images, initialData, isLoading, newFood, fileName, top,
                 inflight, started>>

\* deleteFood's catch.
ListWriteFail ==
  /\ pc["list"] = "write"
  /\ ListFinish
  /\ rival' = [rival EXCEPT !["list"] = NoRival]
  /\ last' = [NoEvent EXCEPT !.kind = "listDelete", !.actor = "list",
                !.result = "writeFailed", !.alert = "failure",
                !.pre = pre["list"], !.id = arg, !.rival = rival["list"]]
  /\ UNCHANGED <<dirExists, file, images, initialData, isLoading, newFood, fileName,
                 listFoods, top, inflight, started>>

\* ------------------------------------------------------------------ Next
Next ==
  \/ \E f \in Forms : OpenForm(f)
  \/ \E f \in Forms : Back(f)
  \/ \E f \in Forms : handleSubmit(f)
  \/ \E f \in Forms : CopyOk(f)
  \/ \E f \in Forms : CopyFail(f)
  \/ \E f \in Forms : FormLoadOk(f)
  \/ \E f \in Forms : FormLoadFail(f)
  \/ \E f \in Forms : FormLoadMissing(f)
  \/ \E f \in Forms : InitFileOk(f)
  \/ \E f \in Forms : InitFileFail(f)
  \/ \E f \in Forms : saveFoodsOk(f)
  \/ \E f \in Forms : saveFoodsFail(f)
  \/ \E f \in Forms : handleDelete(f)
  \/ \E f \in Forms : DeleteCancel(f)
  \/ \E f \in Forms : DeleteConfirm(f)
  \/ fetchFoods
  \/ deleteFood
  \/ ListLoad
  \/ ListWriteOk
  \/ ListWriteFail

Spec == Init /\ [][Next]_vars

\* ------------------------------------------------------------------ round trip
\* saveFoods(await loadFoods()) of food-form.tsx, called once over a document
\* drawn from RTDocs.
MaxRTLen == 3

RECURSIVE SeqsUpTo(_, _)
SeqsUpTo(S, n) ==
  IF n = 0 THEN {<<>>}
  ELSE LET shorter == SeqsUpTo(S, n - 1) IN
       shorter \cup {Append(q, x) : q \in shorter, x \in S}

RTFoods == SeqsUpTo({Saved(t) : t \in Times}, MaxRTLen)
RTDocs == {NoFile} \cup {Stringify(fs, n) : fs \in RTFoods, n \in {0, 2}}
RTActor == "f1"

InitRT ==
  /\ dirExists \in BOOLEAN
  /\ file \in RTDocs
  /\ file.exists => dirExists
  /\ images = {}
  /\ initialData = [f \in Forms |-> NoData]
  /\ isLoading = [f \in Forms |-> FALSE]
  /\ pc = [a \in Actors |->
             IF a = RTActor THEN "load" ELSE IF a = "list" THEN "idle" ELSE "closed"]
  /\ op = [a \in Actors |-> IF a = RTActor THEN "roundtrip" ELSE "none"]
  /\ newFood = [f \in Forms |-> NoFood]
  /\ fileName = [f \in Forms |-> <<>>]
  /\ foods = [a \in Actors |-> <<>>]
  /\ arg = <<>>
  /\ listFoods = <<>>
  /\ top = "list"
  /\ started = 0
  /\ inflight = [f \in Forms |-> 0]
  /\ pre = [a \in Actors |-> IF a = RTActor THEN Disk ELSE NoSnap]
  /\ loaded = [a \in Actors |-> <<>>]
  /\ rival = [a \in Actors |-> NoRival]
  /\ last = NoEvent

RTFrame ==
  UNCHANGED <<images, initialData, isLoading, op, newFood, fileName, arg,
              listFoods, top, started, inflight, pre, rival>>

\* loadFoods returns ret, which is what saveFoods is called with.
RTLoaded(ret, found, result) ==
  /\ foods' = [foods EXCEPT ![RTActor] = ret]
  /\ loaded' = [loaded EXCEPT ![RTActor] = ret]
  /\ pc' = [pc EXCEPT ![RTActor] = "write"]
  /\ last' = [NoEvent EXCEPT !.kind = "load", !.actor = RTActor,
                !.result = result, !.found = found, !.doc = file, !.ret = ret]
  /\ RTFrame

\* loadFoods: the document is there and is read and parsed.
RTLoadOk ==
  /\ pc[RTActor] = "load"
  /\ file.exists
  /\ dirExists' = TRUE
  /\ file' = file
  /\ RTLoaded(Parse(file), "present", "ok")

\* loadFoods: the read or the parse throws, the catch returns [].
RTLoadFail ==
  /\ pc[RTActor] = "load"
  /\ file.exists
  /\ dirExists' = TRUE
  /\ file' = file
  /\ RTLoaded(<<>>, "present", "readFailed")

\* loadFoods: ensureDirectoryExists, and getInfoAsync finds no document.
RTLoadMissing ==
  /\ pc[RTActor] = "load"
  /\ ~file.exists
  /\ dirExists' = TRUE
  /\ pc' = [pc EXCEPT ![RTActor] = "initFile"]
  /\ last' = NoEvent
  /\ UNCHANGED <<file, foods, loaded>>
  /\ RTFrame

\* loadFoods: the document was missing, write JSON.stringify([]) and return [].
RTInitFileOk ==
  /\ pc[RTActor] = "initFile"
  /\ file' = Stringify(<<>>, 0)
  /\ dirExists' = dirExists
  /\ RTLoaded(<<>>, "missing", "ok")

\* loadFoods: that write throws, the catch returns [].
RTInitFileFail ==
  /\ pc[RTActor] = "initFile"
  /\ file' = file
  /\ dirExists' = dirExists
  /\ RTLoaded(<<>>, "missing", "writeFailed")

\* The round trip ends.
RTDone(result) ==
  /\ pc' = [pc EXCEPT ![RTActor] = "done"]
  /\ last' = [NoEvent EXCEPT !.kind = "roundtrip", !.actor = RTActor,
                !.result = result, !.pre = pre[RTActor],
                !.loaded = loaded[RTActor], !.written = foods[RTActor]]
  /\ UNCHANGED <<foods, loaded>>
  /\ RTFrame

\* saveFoods: ensureDirectoryExists, then the write of the loaded collection.
RTSaveOk ==
  /\ pc[RTActor] = "write"
  /\ dirExists' = TRUE
  /\ file' = Stringify(foods[RTActor], 2)
  /\ RTDone("ok")

\* saveFoods rethrows the write's error.
RTSaveFail ==
  /\ pc[RTActor] = "write"
  /\ dirExists' = TRUE
  /\ file' = file
  /\ RTDone("writeFailed")

NextRT ==
  \/ RTLoadOk
  \/ RTLoadFail
  \/ RTLoadMissing
  \/ RTInitFileOk
  \/ RTInitFileFail
  \/ RTSaveOk
  \/ RTSaveFail

SpecRT == InitRT /\ [][NextRT]_vars

\* ------------------------------------------------------------------ claims
\* A handler of one of these kinds has just reported success, and no other
\* handler that rewrites the document ran while it did.
AloneOk(kinds) == last.kind \in kinds /\ last.result = "ok" /\ last.pre.valid

\* The collection on disk; a missing document holds no record.
OnDisk == Parse(file)
Before == Parse(last.pre.file)

\* C1: a create submit that succeeds leaves exactly one record more than the
\* document held when it started, under an id that no record had.
C1_CreateAddsOneFreshRecord ==
  AloneOk({"create"}) =>
    /\ Len(OnDisk) = Len(Before) + 1
    /\ last.id \notin Ids(Before)

\* C2: an edit submit that succeeds on a record of the document keeps the
\* number of records and leaves the submitted values under the edited id.
C2_EditKeepsSizeAndReplaces ==
  (AloneOk({"edit"}) /\ last.id \in Ids(Before)) =>
    /\ Len(OnDisk) = Len(Before)
    /\ last.food.id = last.id
    /\ \E i \in 1..Len(OnDisk) : OnDisk[i] = last.food

\* C3: a confirmed delete of a record of the document that succeeds leaves
\* exactly one record fewer, and none with the deleted id.
C3_DeleteRemovesOne ==
  (AloneOk({"delete", "listDelete"}) /\ last.id \in Ids(Before)) =>
    /\ Len(OnDisk) = Len(Before) - 1
    /\ last.id \notin Ids(OnDisk)

\* C4: a submit whose name is empty after trimming, or whose weight is empty
\* or not a number, is rejected: the disk is what it was, the busy flag is
\* false and no handler is running in the form.
InvalidInput(in) ==
  \/ Trim(in.foodName) = <<>>
  \/ in.weight = <<>>
  \/ NumberIsNaN(in.weight)

C4_InvalidSubmitRejected ==
  (last.kind = "submit" /\ InvalidInput(last.input)) =>
    /\ last.result = "rejected"
    /\ Disk = last.pre
    /\ ~isLoading[last.actor]
    /\ inflight[last.actor] = 0
    /\ pc[last.actor] = "idle"

\* A submit with a weight that is not a number was rejected over a document
\* that holds records.
C4_Witness ==
  /\ last.kind = "submit"
  /\ last.result = "rejected"
  /\ last.input.weight = <<"7", "a">>
  /\ Len(OnDisk) = 2

\* C5: no two records of the document have the same id.
C5_IdsUnique ==
  \A i, j \in 1..Len(OnDisk) : OnDisk[i].id = OnDisk[j].id => i = j

\* C6: when the document write of a submit or a delete fails, the failure alert
\* is shown, the form stays, and the disk is what it was when the handler
\* started.
C6_WriteFailureLeavesDisk ==
  (/\ last.kind \in {"create", "edit", "delete"}
   /\ last.result = "writeFailed"
   /\ last.pre.valid) =>
    /\ last.alert = "failure"
    /\ ~last.back
    /\ Disk = last.pre

\* C7: a load that finds no document leaves an empty document on disk and
\* returns the empty sequence; a load that finds the document returns its
\* content and leaves it as it was.
C7_LoadCreatesOrReturnsAll ==
  last.kind = "load" =>
    IF last.found = "missing"
    THEN file.exists /\ OnDisk = <<>> /\ last.ret = <<>>
    ELSE last.ret = Parse(last.doc) /\ file = last.doc

\* C8: after saveFoods(await loadFoods()) has returned, the document holds the
\* records it held before the call, in the same order and with the same field
\* values, whatever the read inside loadFoods did.
C8_RoundTripKeepsContent ==
  (last.kind = "roundtrip" /\ last.result = "ok") => OnDisk = Before

\* C9: a form has at most one handler between setIsLoading(true) and finally;
\* while it runs the flag is true and the buttons take no press; the flag is
\* false whenever none runs.
C9_BusyFlagOneHandler ==
  \A f \in Forms :
    /\ inflight[f] <= 1
    /\ pc[f] \in Running <=> inflight[f] = 1
    /\ pc[f] \in Running => isLoading[f] /\ ~CanPress(f)
    /\ pc[f] \notin Running => ~isLoading[f]

\* The form on screen is busy saving.
C9_Witness ==
  \E f \in Forms : top = f /\ pc[f] = "write" /\ isLoading[f] /\ inflight[f] = 1

\* C10: when another handler's save landed between a handler's load and its
\* own save, the document after that save is the collection the handler made
\* from what it had loaded, and the other handler's change is not in it: a
\* record the other created is missing, a record it deleted is back, a record
\* it edited is as loaded (unless the last saver's own change is the same).
Deletes == {"delete", "listDelete"}
WithId(fs, id) == SelectSeq(fs, LAMBDA r : r.id = id)

C10_LastSaveWins ==
  (/\ last.kind \in {"create", "edit"} \cup Deletes
   /\ last.result = "ok"
   /\ last.rival.valid) =>
    LET r == last.rival IN
    /\ OnDisk = last.written
    /\ (/\ r.kind = "create"
        /\ r.id \notin Ids(last.loaded)
        /\ ~(last.kind = "create" /\ last.id = r.id)) => r.id \notin Ids(OnDisk)
    /\ (/\ r.kind \in Deletes
        /\ r.id \in Ids(last.loaded)
        /\ ~(last.kind \in Deletes /\ last.id = r.id)) => r.id \in Ids(OnDisk)
    /\ (/\ r.kind = "edit"
        /\ last.id # r.id) => WithId(OnDisk, r.id) = WithId(last.loaded, r.id)

\* Two creates raced: the first one's record is not in the document the second
\* one saved.
C10_Witness ==
  /\ last.kind = "create"
  /\ last.result = "ok"
  /\ last.rival.valid
  /\ last.rival.kind = "create"
  /\ last.rival.id # last.id
  /\ Len(OnDisk) = 1

\* a is b with some elements left out: same values, same relative order.
RECURSIVE IsSubseq(_, _)
IsSubseq(a, b) ==
  IF a = <<>> THEN TRUE
  ELSE IF b = <<>> THEN FALSE
  ELSE IF Head(a) = Head(b) THEN IsSubseq(Tail(a), Tail(b))
  ELSE IsSubseq(a, Tail(b))

\* C11: after a submit or a delete on id X that ran alone, however it ended,
\* the records the document held before under ids other than X are all still
\* in it, with the same field values and in the same relative order.
C11_OtherRecordsKept ==
  (/\ last.kind \in {"create", "edit"} \cup Deletes
   /\ last.result \in {"ok", "writeFailed", "copyFailed"}
   /\ last.pre.valid) =>
    IsSubseq(FilterOut(Before, last.id), OnDisk)

\* C12: when a submit has reported success (success alert, navigation back),
\* the document it wrote holds a record with the submitted record's id and the
\* submitted field values, in create mode and in edit mode alike.
C12_SuccessMeansSaved ==
  (/\ last.kind \in {"create", "edit"}
   /\ last.result = "ok"
   /\ last.alert = "success"
   /\ last.back) =>
    /\ last.food.id = last.id
    /\ \E i \in 1..Len(OnDisk) : OnDisk[i] = last.food

====
